---- MODULE Spec2Model ----
(***************************************************************************)
(* YouTubeDownloader (src/youtube_downloader/downloader.py): a collection  *)
(* run creates N tasks, runs them sequentially or on a thread pool in      *)
(* batches, routes the engine's progress events to tasks, retries once on  *)
(* a "requested format is not available" failure, and cancel_all() may be *)
(* called from another thread at any time once a run has started.          *)
(*                                                                         *)
(* Granularity: one step is one region under _tasks_lock, or one run of    *)
(* statements of a single thread up to the next lock acquisition, engine   *)
(* call, or statement that can raise.                                      *)
(***************************************************************************)
EXTENDS Integers, Sequences, FiniteSets, TLC

\* ---- bounds of the model ------------------------------------------------
MaxInputs == 4     \* most inputs of one run: URLs, persisted records (and their file), progress events, failures (engine, metadata lookup, state file write), cancel_all calls, an earlier run's pool
MaxFiles == 2      \* most files one engine call downloads (e.g. video + audio)
MaxHours == 200    \* latest clock reading, in hours after the state file was written
MaxCallbacks == 3  \* most progress callbacks registered
MaxSeqLen == 45    \* tasks of the list _download_sequential is given, run on its own
MaxSleep == 4      \* largest options.sleep_interval, in seconds

\* ---- program constants --------------------------------------------------
ParallelCap == 10  \* batch_size = min(max_workers, 10)
StaleDays == 7     \* if (datetime.now() - timestamp).days > 7
HoursPerDay == 24

TaskIds == 1..MaxInputs
WorkerChoices == {1, 2}        \* values of options.max_workers
PriorPools == {0, 3}              \* 0: no executor yet; p: pool left by an earlier parallel run
PctVals == {50, 100}              \* values of a parsable "_percent_str"
PctMissing == -1                  \* event without a "_percent_str" key
PctBad == -2                      \* "_percent_str" that float() rejects

\* ---- error messages (token sequences; the retry test is a substring test)
Phrase == "requested format is not available"
NoMsg == <<>>
MsgFormatA == <<"ERROR:", Phrase, "A">>
MsgFormatB == <<"ERROR:", Phrase, "B">>
MsgNetwork == <<"ERROR:", "network unreachable">>
MsgCancelled == <<"cancelled by user">>
MsgHookDefault == <<"unknown error">>
MsgValueError == <<"could not convert string to float">>
\* what ydl.download() may raise in the a-th engine call of a task
EngineMsgs(a) == IF a = 1 THEN {MsgFormatA, MsgNetwork} ELSE {MsgFormatB, MsgNetwork}

\* options.sleep_interval before the run has read it
NotRead == -1
\* values of options.sleep_interval (seconds)
SleepChoices == {0, 3}

VARIABLES
    maxWorkers,     \* options.max_workers of the run
    optsValid,      \* whether options.to_yt_dlp_options() succeeds (rate_limit parses)
    executor,       \* self.executor: 0 is None, p > 0 a live pool of p threads
    poolSize,       \* size of the pool holding this run's submitted work items
    opc,            \* position of the thread that called download()
    result,         \* value download() returned
    n,              \* number of tasks the run created
    active, completed, failed,   \* the three task lists
    status, percent, filename, errmsg,  \* task.progress fields
    pc,             \* position of download_single_video(task)
    attempt,        \* engine calls started for the task
    ret,            \* value download_single_video(task) returned
    failMsgs,       \* messages of the engine calls of the task that raised
    engFile, engPct,\* engine: file being written, last percent reported for it
    hookTask, hookEv, \* progress_hook in progress in the task's thread
    budget,         \* inputs the run may still receive
    cpc,            \* position of the thread that called cancel_all()
    cancelSeen,     \* self.active_tasks as it was when cancel_all() was called
    stateFile,      \* "tasks" of the state file (<<>>: none written)
    unlocked,       \* accesses to the three lists made without holding _tasks_lock
    kind,           \* which operation started the run: "single", "playlist", "resume"
    taskRec,        \* the DownloadTask fields fixed at creation, per task
    fileStamp,      \* "timestamp" of the state file, in hours
    now,            \* datetime.now(), in hours
    spc,            \* state store: "idle", "saved", "loaded"
    loaded,         \* what the last load_download_state() returned
    loadAge,        \* now - timestamp, in hours, at the last load_download_state()
    progressCallbacks, \* self.progress_callbacks: what each callback does when called
    snapshot,       \* notify_progress: list(self.progress_callbacks)
    npos,           \* notify_progress: position of the loop in snapshot
    delivered,      \* notify_progress: callbacks called so far (positions in snapshot)
    npc,            \* notify_progress: "idle", "loop", "returned", "propagated"
    ydlFormat,      \* options["format"] of the yt-dlp options the task's engine call gets
    calls,          \* calls of download_single_video(task) started
    lastNotified,   \* task.progress.status at the latest notify_progress(task)
    sleepInterval,  \* options.sleep_interval of the run (NotRead until the run uses it)
    mainLog,        \* what the thread running the batch did: sleeps, calls, submits
    seqIdx,         \* _download_sequential alone: idx of the loop
    waits,          \* _download_sequential alone: the wait_time of each pause so far
    ppc,            \* _download_sequential alone: "idle", "top", "body", "returned"
    fileCond,       \* what load_download_state() found: "ok", "missing", "unreadable", ...
    callerOptions,  \* the DownloadOptions the caller passed (or self.default_options)
    taskOptions,    \* the DownloadOptions object the tasks of the run hold
    lockHolder,     \* _tasks_lock on its own: the thread holding it (0: free)
    gpc,            \* _tasks_lock on its own: position of each thread
    inCancel,       \* _tasks_lock on its own: the thread's callback is inside cancel_all's lock region
    observer        \* _tasks_lock on its own: what the registered callback does

vars == <<maxWorkers, optsValid, executor, poolSize, opc, result, n,
          active, completed, failed, status, percent, filename, errmsg,
          pc, attempt, ret, failMsgs, engFile, engPct, hookTask, hookEv,
          budget, cpc, cancelSeen, stateFile, unlocked, kind, taskRec,
          fileStamp, now, spc, loaded, loadAge,
          progressCallbacks, snapshot, npos, delivered, npc,
          ydlFormat, calls, lastNotified, sleepInterval, mainLog,
          seqIdx, waits, ppc, fileCond, callerOptions, taskOptions,
          lockHolder, gpc, inCancel, observer>>

cfgVars == <<maxWorkers, optsValid>>
taskVars == <<kind, taskRec>>
storeVars == <<fileStamp, now, spc, loaded, loadAge, fileCond>>
hubVars == <<progressCallbacks, snapshot, npos, delivered, npc>>
loopVars == <<seqIdx, waits, ppc>>
guardVars == <<lockHolder, gpc, inCancel, observer>>
optVars == <<callerOptions, taskOptions>>
sideVars == <<storeVars, hubVars, loopVars, guardVars>>
paceVars == <<sleepInterval, mainLog>>
listVars == <<active, completed, failed>>
progVars == <<status, percent, filename, errmsg>>
engVars == <<engFile, engPct, ydlFormat>>
hookVars == <<hookTask, hookEv>>
cancelVars == <<cpc, cancelSeen, stateFile, unlocked>>
runVars == <<opc, result, n>>

\* ---- helpers --------------------------------------------------------------
Min(a, b) == IF a < b THEN a ELSE b

InSeq(x, s) == \E i \in 1..Len(s) : s[i] = x

\* list.remove(x): drops the first occurrence
Remove(s, x) ==
    LET i == CHOOSE j \in 1..Len(s) : s[j] = x /\ \A k \in 1..(j-1) : s[k] # x
    IN  SubSeq(s, 1, i-1) \o SubSeq(s, i+1, Len(s))

Count(x, s) == Cardinality({i \in 1..Len(s) : s[i] = x})

\* task.url
Url(t) == taskRec[t].url

\* os.path.basename of the k-th file the engine writes for task t
FileName(t, k) == t * 10 + k

\* "requested format is not available" in error_msg
IsRetryable(m) == \E i \in 1..Len(m) : m[i] = Phrase

\* first element of list s that lies in set S, 0 when there is none
\* (for candidate in self.active_tasks: if <test>: task = candidate; break)
FirstIn(s, S) ==
    IF \E i \in 1..Len(s) : s[i] \in S
    THEN s[CHOOSE i \in 1..Len(s) : s[i] \in S /\ \A j \in 1..(i-1) : s[j] \notin S]
    ELSE 0

\* a lookup that tries the recorded file name before the event's URL
RouteNameFirst(src, base) ==
    LET byUrl == IF src # 0 THEN FirstIn(active, {c \in TaskIds : Url(c) = src}) ELSE 0
        byName == FirstIn(active, {c \in TaskIds : filename[c] # 0 /\ filename[c] = base})
        byEmpty == FirstIn(active, {c \in TaskIds : filename[c] = 0})
    IN  IF byName # 0 THEN byName
        ELSE IF byUrl # 0 THEN byUrl
        ELSE byEmpty

\* progress_hook, the lookup under _tasks_lock: the task an event is for.
\* src is the event's info_dict URL (0: none), base the event's file name.
Route(src, base) ==
    LET byUrl == IF src # 0 THEN FirstIn(active, {c \in TaskIds : Url(c) = src}) ELSE 0
        byName == FirstIn(active, {c \in TaskIds : filename[c] # 0 /\ filename[c] = base})
        byEmpty == FirstIn(active, {c \in TaskIds : filename[c] = 0})
    IN  IF byUrl # 0 THEN byUrl
        ELSE IF byName # 0 THEN byName
        ELSE byEmpty

\* wait_time = min(sleep_interval, 1 + idx // 20)
WaitTime(idx, s) == Min(s, 1 + idx \div 20)

\* the run uses sleep_interval: it is s, now and for the rest of the run
ReadSleep(s) ==
    /\ sleepInterval \in {NotRead, s}
    /\ sleepInterval' = s

\* batch size with max() written for min()
BatchSizeMax == IF maxWorkers > ParallelCap THEN maxWorkers ELSE ParallelCap

\* batch_size = min(max_workers, 10)
BatchSize == Min(maxWorkers, ParallelCap)

\* index of the batch tasks[i : i + batch_size] that holds task t
BatchOf(t) == (t - 1) \div BatchSize

\* download_single_video(t) is between its first and its last statement
Running(t) == pc[t] \in {"call", "hook", "hook2", "finOk", "finErr"}

\* the engine call of t is in progress (a hook it called may be running)
InEngine(t) == pc[t] \in {"call", "hook", "hook2"}

Returned(t) == pc[t] \in {"done", "raised"}

NoEvent == [st |-> "none", file |-> 0, pct |-> 0, src |-> 0]

\* a task slot no DownloadTask has been created for
NoTask == [url |-> 0, index |-> 0, total |-> 0, is_playlist |-> FALSE, info |-> "none"]

\* an index that is the 0-based position itself
PlaylistIndexZero(i) == i

\* index = i + 1 for the 0-based position i of enumerate(video_urls)
PlaylistIndex(i) == i + 1

\* DownloadTask(url=video_url, options=playlist_options, index=i + 1,
\* total=len(video_urls), is_playlist=True, playlist_info=playlist_info)
\* for the i-th (0-based) of k enumerated URLs; the URLs are 1..k
PlaylistTask(i, k) ==
    [url |-> i + 1, index |-> PlaylistIndex(i), total |-> k, is_playlist |-> TRUE, info |-> "playlist"]

\* DownloadTask(url=url, options=options[, video_info=video_info])
SingleTask(u, metaOk) ==
    [url |-> u, index |-> 0, total |-> 0, is_playlist |-> FALSE,
     info |-> IF metaOk THEN "video" ELSE "none"]

\* a rebuilt task that takes only the url from the record
ResumedTaskUrlOnly(rec, metaOk) == SingleTask(rec.url, metaOk)

\* resume_downloads: the task rebuilt from one persisted record
ResumedTask(rec, metaOk) ==
    IF rec.is_playlist
    THEN [url |-> rec.url, index |-> rec.index, total |-> rec.total, is_playlist |-> TRUE,
          info |-> IF metaOk THEN "playlist" ELSE "none"]
    ELSE SingleTask(rec.url, metaOk)

\* ---- construction -------------------------------------------------------
\* ConfigManager's state file not yet written or read
StoreIdle ==
    /\ fileStamp = 0
    /\ now = 0
    /\ spc = "idle"
    /\ loaded = <<>>
    /\ loadAge = 0
    /\ fileCond = "ok"

\* no progress callback registered, no notification in progress
HubIdle ==
    /\ progressCallbacks = <<>>
    /\ snapshot = <<>>
    /\ npos = 0
    /\ delivered = <<>>
    /\ npc = "idle"

\* _download_sequential is not being run on its own
LoopIdle ==
    /\ seqIdx = 0
    /\ waits = <<>>
    /\ ppc = "idle"

\* the threads that contend for _tasks_lock
LockThreads == {1, 2}

\* _tasks_lock is free and no thread is being followed through it
GuardIdle ==
    /\ lockHolder = 0
    /\ gpc = [x \in LockThreads |-> "idle"]
    /\ inCancel = [x \in LockThreads |-> FALSE]
    /\ observer = "plain"

\* DownloadOptions as the caller built it: its format_selector and output_template
CallerOptions == [format_selector |-> "selector", output_template |-> "caller"]

\* no DownloadOptions object
NoOptions == [format_selector |-> "none", output_template |-> "none"]

\* YouTubeDownloader.__init__: empty lists, no run started
FreshDownloader ==
    /\ poolSize = 0
    /\ opc = "new"
    /\ result = FALSE
    /\ n = 0
    /\ active = <<>>
    /\ completed = <<>>
    /\ failed = <<>>
    /\ filename = [t \in TaskIds |-> 0]
    /\ errmsg = [t \in TaskIds |-> NoMsg]
    /\ pc = [t \in TaskIds |-> "idle"]
    /\ attempt = [t \in TaskIds |-> 0]
    /\ ret = [t \in TaskIds |-> FALSE]
    /\ failMsgs = [t \in TaskIds |-> <<>>]
    /\ engFile = [t \in TaskIds |-> 0]
    /\ engPct = [t \in TaskIds |-> 0]
    /\ hookTask = [t \in TaskIds |-> 0]
    /\ hookEv = [t \in TaskIds |-> NoEvent]
    /\ cpc = "idle"
    /\ cancelSeen = <<>>
    /\ unlocked = {}
    /\ kind = "none"
    /\ callerOptions = CallerOptions
    /\ taskOptions = NoOptions
    /\ ydlFormat = [t \in TaskIds |-> "none"]
    /\ calls = [t \in TaskIds |-> 0]
    /\ lastNotified = [t \in TaskIds |-> "none"]
    /\ mainLog = <<>>

Init ==
    /\ maxWorkers \in WorkerChoices
    /\ optsValid \in BOOLEAN
    /\ executor \in (IF maxWorkers > 1 THEN PriorPools ELSE {0})
    /\ budget = MaxInputs - (IF executor # 0 THEN 1 ELSE 0)
    /\ FreshDownloader
    /\ status = [t \in TaskIds |-> "waiting"]
    /\ percent = [t \in TaskIds |-> 0]
    /\ taskRec = [t \in TaskIds |-> NoTask]
    /\ stateFile = <<>>
    /\ sleepInterval = NotRead
    /\ StoreIdle
    /\ HubIdle
    /\ GuardIdle
    /\ LoopIdle

\* ---- download() / download_playlist() -----------------------------------
\* inputs a metadata resolution takes from the run's budget: a failing
\* extract_info is one input, like a failing engine call
MetaCost(metaOk) == IF metaOk THEN 0 ELSE 1

\* the steps of a run that precede the creation of its tasks and can fail:
\* os.makedirs(download_dir) in download(); in download_playlist()
\* get_playlist_info, get_all_video_urls_from_playlist raising, the
\* enumeration being empty, os.makedirs(playlist_dir)
SetupStages == {"makedirs", "metadata", "enumerate", "empty", "playlist_dir"}

\* a setup step that fails after the tasks were added to active
DownloadSetupFailsLate(k, stage) ==
    /\ opc = "new"
    /\ k \in {"single", "playlist"}
    /\ stage \in SetupStages
    /\ stage # "makedirs" => k = "playlist"
    /\ kind' = k
    /\ opc' = "setupFailed"
    /\ result' = FALSE
    /\ n' = 1
    /\ taskRec' = [taskRec EXCEPT ![1] = PlaylistTask(0, 1)]
    /\ active' = Append(active, 1)
    /\ UNCHANGED <<cfgVars, optVars, sideVars, paceVars, lastNotified, executor, poolSize, completed, failed, progVars,
                   pc, attempt, calls, ret, failMsgs, engVars, hookVars, budget, cancelVars>>

\* A setup step of a run of kind k fails: the exception is caught by the
\* `except Exception` of download() or download_playlist(), or the empty
\* enumeration is detected; the run returns False. Every such step precedes
\* the creation of the tasks.
DownloadSetupFails(k, stage) ==
    /\ opc = "new"
    /\ k \in {"single", "playlist"}
    /\ stage \in SetupStages
    /\ stage # "makedirs" => k = "playlist"
    /\ kind' = k
    /\ opc' = "setupFailed"
    /\ result' = FALSE
    /\ UNCHANGED <<n, taskRec, cfgVars, optVars, sideVars, paceVars, lastNotified, executor, poolSize, listVars, progVars,
                   pc, attempt, calls, ret, failMsgs, engVars, hookVars, budget, cancelVars>>

\* _download_parallel (max_workers > 1; it creates the executor when there is
\* none) or _download_sequential is entered
EnterBatch ==
    IF maxWorkers > 1
    THEN /\ opc' = "par"
         /\ executor' = IF executor = 0 THEN maxWorkers ELSE executor
         /\ poolSize' = executor'
    ELSE /\ opc' = "seq"
         /\ UNCHANGED <<executor, poolSize>>

\* the playlist output template written into the caller's own options object
PlaylistOptionsInPlace(options) ==
    LET changed == [options EXCEPT !.output_template = "playlist"]
    IN  [caller |-> changed, tasks |-> changed]

\* playlist_options = copy_download_options(options) (a deep copy), then
\* playlist_options.output_template = <template under playlist_dir>: the
\* caller's object and the object the tasks of the collection will hold
PlaylistOptions(options) ==
    [caller |-> options, tasks |-> [options EXCEPT !.output_template = "playlist"]]

\* The enumeration yields k URLs: k tasks are created and added to active,
\* then the batch is run.
DownloadPlaylist(k) ==
    /\ opc = "new"
    /\ k <= budget
    /\ budget' = budget - k
    /\ kind' = "playlist"
    /\ n' = k
    /\ taskRec' = [t \in TaskIds |-> IF t <= k THEN PlaylistTask(t - 1, k) ELSE NoTask]
    /\ active' = active \o [i \in 1..k |-> i]
    /\ callerOptions' = PlaylistOptions(callerOptions).caller
    /\ taskOptions' = PlaylistOptions(callerOptions).tasks
    /\ EnterBatch
    /\ UNCHANGED <<result, cfgVars, sideVars, paceVars, lastNotified, completed, failed, progVars, pc, attempt, calls,
                   ret, failMsgs, engVars, hookVars, cancelVars>>

\* a single-item run that gives up when get_video_info fails
DownloadSingleStrict(metaOk) ==
    /\ opc = "new"
    /\ 1 + MetaCost(metaOk) <= budget
    /\ budget' = budget - (1 + MetaCost(metaOk))
    /\ kind' = "single"
    /\ IF metaOk
       THEN /\ n' = 1
            /\ taskRec' = [taskRec EXCEPT ![1] = SingleTask(1, metaOk)]
            /\ active' = Append(active, 1)
            /\ opc' = "single"
            /\ taskOptions' = callerOptions
            /\ UNCHANGED result
       ELSE /\ opc' = "returned"
            /\ result' = FALSE
            /\ UNCHANGED <<n, taskRec, active, taskOptions>>
    /\ UNCHANGED <<cfgVars, callerOptions, sideVars, paceVars, lastNotified, executor, poolSize, completed, failed,
                   progVars, pc, attempt, calls, ret, failMsgs, engVars, hookVars, cancelVars>>

\* download() of a URL that is not a playlist: get_video_info (a failure is
\* swallowed and the task is built without video_info), the task is appended
\* to active, and download_single_video is called in the caller's thread.
DownloadSingle(metaOk) ==
    /\ opc = "new"
    /\ 1 + MetaCost(metaOk) <= budget
    /\ budget' = budget - (1 + MetaCost(metaOk))
    /\ kind' = "single"
    /\ n' = 1
    /\ taskRec' = [taskRec EXCEPT ![1] = SingleTask(1, metaOk)]
    /\ active' = Append(active, 1)
    /\ opc' = "single"
    /\ taskOptions' = callerOptions
    /\ UNCHANGED <<result, cfgVars, callerOptions, sideVars, paceVars, lastNotified, executor, poolSize, completed, failed,
                   progVars, pc, attempt, calls, ret, failMsgs, engVars, hookVars, cancelVars>>

\* download_single_video up to the engine call: status = "downloading",
\* notify, to_yt_dlp_options() (which raises when rate_limit does not parse).
StartTask(t) ==
    /\ calls' = [calls EXCEPT ![t] = @ + 1]
    /\ status' = [status EXCEPT ![t] = "downloading"]
    /\ lastNotified' = [lastNotified EXCEPT ![t] = "downloading"]
    /\ IF optsValid
       THEN /\ pc' = [pc EXCEPT ![t] = "call"]
            /\ attempt' = [attempt EXCEPT ![t] = 1]
            /\ engFile' = [engFile EXCEPT ![t] = 1]
            /\ ydlFormat' = [ydlFormat EXCEPT ![t] = "selector"]
       ELSE /\ pc' = [pc EXCEPT ![t] = "raised"]
            /\ UNCHANGED <<attempt, engFile, ydlFormat>>
    /\ UNCHANGED <<percent, filename, errmsg, engPct>>

\* ---- resume_downloads ------------------------------------------------------
\* records load_download_state() may return
RecA == [url |-> 1, is_playlist |-> TRUE, index |-> 2, total |-> 3, progress |-> 50]
RecB == [url |-> 2, is_playlist |-> FALSE, index |-> 0, total |-> 0, progress |-> 0]
RecNoUrl == [url |-> 0, is_playlist |-> TRUE, index |-> 1, total |-> 3, progress |-> 0]
ResumeInputs == {<<>>, <<RecNoUrl>>, <<RecA>>, <<RecNoUrl, RecA>>, <<RecA, RecB>>}

\* resume that rebuilds a task from every record, with or without a url
WithUrlAll(recs) == recs

\* the records with a url, in order (`if not url: continue`)
WithUrl(recs) == SelectSeq(recs, LAMBDA r : r.url # 0)

\* a load that removes the state file once it has read it
StateFileConsumed(recs) == <<>>

\* the "tasks" of the state file after load_download_state() returned recs
\* from it: the file is opened for reading and closed, nothing is written
StateFileAfterLoad(recs) == recs

\* resume_downloads: recs is what load_download_state() returned (tasks_data),
\* the records of a state file an earlier session wrote. Without
\* records, or without a record that has a url, it returns False. Otherwise
\* one task per record with a url is rebuilt (metadata best-effort), the
\* tasks are added to active and the batch is run.
Resume(recs, metaOk) ==
    LET valid == WithUrl(recs)
        m == Len(valid)
        cost == 1 + Len(recs) + MetaCost(metaOk)
    IN  /\ opc = "new"
        /\ cost <= budget
        /\ budget' = budget - cost
        /\ kind' = "resume"
        /\ loaded' = recs
        /\ stateFile' = StateFileAfterLoad(recs)
        /\ IF m = 0
           THEN /\ opc' = "returned"
                /\ result' = FALSE
                /\ UNCHANGED <<n, taskRec, active, executor, poolSize, taskOptions>>
           ELSE /\ n' = m
                /\ taskRec' = [t \in TaskIds |->
                                  IF t <= m THEN ResumedTask(valid[t], metaOk) ELSE NoTask]
                /\ active' = active \o [i \in 1..m |-> i]
                /\ taskOptions' = callerOptions
                /\ EnterBatch
                /\ UNCHANGED result
        /\ UNCHANGED <<cfgVars, callerOptions, hubVars, loopVars, guardVars, paceVars, lastNotified, fileStamp, now, spc, loadAge, fileCond, completed, failed, progVars, pc, attempt, calls,
                       ret, failMsgs, engVars, hookVars, cpc, cancelSeen, unlocked>>

\* An exception leaves _download_sequential or _download_parallel:
\* download_playlist catches it and returns False; resume_downloads has no
\* handler and the exception reaches its caller.
BatchAborts ==
    IF kind = "resume"
    THEN opc' = "raised" /\ UNCHANGED result
    ELSE opc' = "returned" /\ result' = FALSE

\* ---- download(), single item: download_single_video in the caller's thread
\* An exception of the call is caught by download() and the run returns False.
SingleCall ==
    /\ opc = "single"
    /\ pc[1] = "idle"
    /\ StartTask(1)
    /\ IF optsValid
       THEN UNCHANGED <<opc, result>>
       ELSE opc' = "returned" /\ result' = FALSE
    /\ UNCHANGED <<n, cfgVars, optVars, taskVars, sideVars, paceVars, executor, poolSize, listVars, ret, failMsgs,
                   hookVars, budget, cancelVars>>

\* return self.download_single_video(task)
SingleReturn ==
    /\ opc = "single"
    /\ pc[1] = "done"
    /\ opc' = "returned"
    /\ result' = ret[1]
    /\ UNCHANGED <<n, cfgVars, optVars, taskVars, sideVars, paceVars, lastNotified, executor, poolSize, listVars, progVars, pc, attempt, calls,
                   ret, failMsgs, engVars, hookVars, budget, cancelVars>>

\* ---- _download_sequential -----------------------------------------------
\* a loop that calls download_single_video for any task not yet called,
\* whether or not the calls before it returned
SeqCallUnordered(t) ==
    /\ opc = "seq"
    /\ t <= n
    /\ pc[t] = "idle"
    /\ \E s \in SleepChoices :
          /\ t > 1 => ReadSleep(s)
          /\ t = 1 => UNCHANGED sleepInterval
          /\ mainLog' = mainLog
                         \o (IF t > 1 THEN <<<<"sleep", WaitTime(t - 1, s)>>>> ELSE <<>>)
                         \o <<<<"call", t>>>>
    /\ StartTask(t)
    /\ IF optsValid
       THEN UNCHANGED <<opc, result>>
       ELSE BatchAborts
    /\ UNCHANGED <<n, cfgVars, optVars, taskVars, sideVars, executor, poolSize, listVars, ret, failMsgs,
                   hookVars, budget, cancelVars>>

\* The loop calls download_single_video(t) once the previous call returned.
\* An exception of the call leaves the loop.
SeqCall(t) ==
    /\ opc = "seq"
    /\ t <= n
    /\ pc[t] = "idle"
    /\ \A u \in 1..(t-1) : pc[u] = "done"
    /\ \E s \in SleepChoices :
          /\ t > 1 => ReadSleep(s)
          /\ t = 1 => UNCHANGED sleepInterval
          /\ mainLog' = mainLog
                         \o (IF t > 1 THEN <<<<"sleep", WaitTime(t - 1, s)>>>> ELSE <<>>)
                         \o <<<<"call", t>>>>
    /\ StartTask(t)
    /\ IF optsValid
       THEN UNCHANGED <<opc, result>>
       ELSE BatchAborts
    /\ UNCHANGED <<n, cfgVars, optVars, taskVars, sideVars, executor, poolSize, listVars, ret, failMsgs,
                   hookVars, budget, cancelVars>>

SeqReturn ==
    /\ opc = "seq"
    /\ \A t \in 1..n : pc[t] = "done"
    /\ opc' = "returned"
    /\ result' = (\E t \in 1..n : ret[t])
    /\ UNCHANGED <<n, cfgVars, optVars, taskVars, sideVars, paceVars, lastNotified, executor, poolSize, listVars, progVars, pc, attempt, calls,
                   ret, failMsgs, engVars, hookVars, budget, cancelVars>>

\* ---- _download_parallel ---------------------------------------------------
\* a submission loop that also submits a task whose call has returned
SubmitAgain(t) ==
    /\ opc = "par"
    /\ t <= n
    /\ pc[t] \in {"idle", "done"}
    /\ \A u \in 1..(t-1) : pc[u] # "idle"
    /\ \A u \in 1..n : BatchOf(u) < BatchOf(t) => Returned(u)
    /\ \E s \in SleepChoices :
          LET paused == BatchOf(t) > 0 /\ BatchOf(t - 1) < BatchOf(t)
          IN  /\ paused => ReadSleep(s)
              /\ ~paused => UNCHANGED sleepInterval
              /\ mainLog' = mainLog
                             \o (IF paused THEN <<<<"sleep", s>>>> ELSE <<>>)
                             \o (IF executor # 0 THEN <<<<"submit", t>>>> ELSE <<>>)
    /\ IF executor # 0
       THEN /\ pc' = [pc EXCEPT ![t] = "queued"]
            /\ UNCHANGED <<opc, result>>
       ELSE /\ BatchAborts
            /\ UNCHANGED pc
    /\ UNCHANGED <<n, cfgVars, optVars, taskVars, sideVars, lastNotified, executor, poolSize, listVars, progVars, attempt, calls,
                   ret, failMsgs, engVars, hookVars, budget, cancelVars>>

\* self.executor.submit(download_single_video, t), in list order, a batch
\* being submitted once as_completed() has drained the batch before it.
\* With self.executor None the call raises and leaves _download_parallel.
Submit(t) ==
    /\ opc = "par"
    /\ t <= n
    /\ pc[t] = "idle"
    /\ \A u \in 1..(t-1) : pc[u] # "idle"
    /\ \A u \in 1..n : BatchOf(u) < BatchOf(t) => Returned(u)
    /\ \E s \in SleepChoices :
          LET paused == BatchOf(t) > 0 /\ BatchOf(t - 1) < BatchOf(t)
          IN  /\ paused => ReadSleep(s)
              /\ ~paused => UNCHANGED sleepInterval
              /\ mainLog' = mainLog
                             \o (IF paused THEN <<<<"sleep", s>>>> ELSE <<>>)
                             \o (IF executor # 0 THEN <<<<"submit", t>>>> ELSE <<>>)
    /\ IF executor # 0
       THEN /\ pc' = [pc EXCEPT ![t] = "queued"]
            /\ UNCHANGED <<opc, result>>
       ELSE /\ BatchAborts
            /\ UNCHANGED pc
    /\ UNCHANGED <<n, cfgVars, optVars, taskVars, sideVars, lastNotified, executor, poolSize, listVars, progVars, attempt, calls,
                   ret, failMsgs, engVars, hookVars, budget, cancelVars>>

\* A pool thread takes the oldest queued work item; the pool has poolSize threads.
WorkerStart(t) ==
    /\ pc[t] = "queued"
    /\ \A u \in 1..(t-1) : pc[u] # "queued"
    /\ Cardinality({u \in TaskIds : Running(u)}) < poolSize
    /\ StartTask(t)
    /\ UNCHANGED <<runVars, cfgVars, optVars, taskVars, sideVars, paceVars, executor, poolSize, listVars, ret, failMsgs,
                   hookVars, budget, cancelVars>>

ParReturn ==
    /\ opc = "par"
    /\ \A t \in 1..n : Returned(t)
    /\ opc' = "returned"
    /\ result' = (\E t \in 1..n : ret[t])
    /\ UNCHANGED <<n, cfgVars, optVars, taskVars, sideVars, paceVars, lastNotified, executor, poolSize, listVars, progVars, pc, attempt, calls,
                   ret, failMsgs, engVars, hookVars, budget, cancelVars>>

\* ---- the engine's call of progress_hook -----------------------------------
\* The engine, inside ydl.download() for task t, calls progress_hook with an
\* event for the file it is writing. This step is the hook up to the end of
\* the region under _tasks_lock: the owning task is looked up. An event no
\* active task matches is logged and dropped.
HookLookup(t, ev) ==
    LET target == Route(ev.src, ev.file)
    IN  /\ budget' = budget - 1
        /\ IF target = 0
           THEN UNCHANGED <<pc, hookVars>>
           ELSE /\ pc' = [pc EXCEPT ![t] = "hook"]
                /\ hookTask' = [hookTask EXCEPT ![t] = target]
                /\ hookEv' = [hookEv EXCEPT ![t] = ev]

\* A "downloading" event for file k, the file being written or the next one:
\* percent p, never below the percent last reported for that file; or no
\* "_percent_str"; or one that float() rejects.
EmitDownloading(t, k, p, src) ==
    /\ pc[t] = "call"
    /\ budget > 0
    /\ k \in {engFile[t], engFile[t] + 1}
    /\ (p \in PctVals /\ k = engFile[t]) => p >= engPct[t]
    /\ HookLookup(t, [st |-> "downloading", file |-> FileName(t, k), pct |-> p, src |-> src])
    /\ engFile' = [engFile EXCEPT ![t] = k]
    /\ engPct' = [engPct EXCEPT ![t] = IF p \in PctVals THEN p
                                       ELSE IF k = engFile[t] THEN @ ELSE 0]
    /\ UNCHANGED ydlFormat
    /\ UNCHANGED <<runVars, cfgVars, optVars, taskVars, sideVars, paceVars, lastNotified, executor, poolSize, listVars, progVars, attempt, calls,
                   ret, failMsgs, cancelVars>>

\* A "finished" event for the current file; the engine goes on to the next file.
EmitFinished(t, src) ==
    /\ pc[t] = "call"
    /\ budget > 0
    /\ engFile[t] <= MaxFiles
    /\ HookLookup(t, [st |-> "finished", file |-> FileName(t, engFile[t]), pct |-> 100, src |-> src])
    /\ engFile' = [engFile EXCEPT ![t] = @ + 1]
    /\ engPct' = [engPct EXCEPT ![t] = 0]
    /\ UNCHANGED ydlFormat
    /\ UNCHANGED <<runVars, cfgVars, optVars, taskVars, sideVars, paceVars, lastNotified, executor, poolSize, listVars, progVars, attempt, calls,
                   ret, failMsgs, cancelVars>>

\* An "error" event for the current file (it carries no "error" key).
EmitError(t, src) ==
    /\ pc[t] = "call"
    /\ budget > 0
    /\ engFile[t] <= MaxFiles
    /\ HookLookup(t, [st |-> "error", file |-> FileName(t, engFile[t]), pct |-> 0, src |-> src])
    /\ UNCHANGED <<runVars, cfgVars, optVars, taskVars, sideVars, paceVars, lastNotified, executor, poolSize, listVars, progVars, attempt, calls,
                   ret, failMsgs, engVars, cancelVars>>

\* failure path that never retries: every failure of the first call is final
FailBodyNoRetry(t, m) ==
    /\ failMsgs' = [failMsgs EXCEPT ![t] = Append(@, m)]
    /\ status' = [status EXCEPT ![t] = "error"]
    /\ errmsg' = [errmsg EXCEPT ![t] = m]
    /\ lastNotified' = [lastNotified EXCEPT ![t] = "error"]
    /\ pc' = [pc EXCEPT ![t] = "finErr"]
    /\ engFile' = [engFile EXCEPT ![t] = 0]
    /\ engPct' = [engPct EXCEPT ![t] = 0]
    /\ UNCHANGED <<attempt, ydlFormat>>

\* failure path whose retry handler does not reassign error_msg: a failed
\* retry reports the message of the first failure
FailBodyFirstMsg(t, m) ==
    /\ failMsgs' = [failMsgs EXCEPT ![t] = Append(@, m)]
    /\ IF attempt[t] = 1 /\ IsRetryable(m)
       THEN /\ attempt' = [attempt EXCEPT ![t] = 2]
            /\ pc' = [pc EXCEPT ![t] = "call"]
            /\ engFile' = [engFile EXCEPT ![t] = 1]
            /\ engPct' = [engPct EXCEPT ![t] = 0]
            /\ ydlFormat' = [ydlFormat EXCEPT ![t] = "best"]
            /\ UNCHANGED <<status, errmsg, lastNotified>>
       ELSE /\ status' = [status EXCEPT ![t] = "error"]
            /\ errmsg' = [errmsg EXCEPT ![t] = IF attempt[t] = 2 THEN failMsgs[t][1] ELSE m]
            /\ lastNotified' = [lastNotified EXCEPT ![t] = "error"]
            /\ pc' = [pc EXCEPT ![t] = "finErr"]
            /\ engFile' = [engFile EXCEPT ![t] = 0]
            /\ engPct' = [engPct EXCEPT ![t] = 0]
            /\ UNCHANGED <<attempt, ydlFormat>>

\* failure path that retries after every failure of the retryable class,
\* the failure of a retry included
FailBodyRetryAgain(t, m) ==
    /\ failMsgs' = [failMsgs EXCEPT ![t] = Append(@, m)]
    /\ IF IsRetryable(m)
       THEN /\ attempt' = [attempt EXCEPT ![t] = @ + 1]
            /\ pc' = [pc EXCEPT ![t] = "call"]
            /\ engFile' = [engFile EXCEPT ![t] = 1]
            /\ engPct' = [engPct EXCEPT ![t] = 0]
            /\ ydlFormat' = [ydlFormat EXCEPT ![t] = "best"]
            /\ UNCHANGED <<status, errmsg, lastNotified>>
       ELSE /\ status' = [status EXCEPT ![t] = "error"]
            /\ errmsg' = [errmsg EXCEPT ![t] = m]
            /\ lastNotified' = [lastNotified EXCEPT ![t] = "error"]
            /\ pc' = [pc EXCEPT ![t] = "finErr"]
            /\ engFile' = [engFile EXCEPT ![t] = 0]
            /\ engPct' = [engPct EXCEPT ![t] = 0]
            /\ UNCHANGED <<attempt, ydlFormat>>

\* download_single_video, the failure path from `except Exception as exc`:
\* a first failure of the retryable class starts the second engine call with
\* format "best"; any other failure sets status "error" and the message.
FailBody(t, m) ==
    /\ failMsgs' = [failMsgs EXCEPT ![t] = Append(@, m)]
    /\ IF attempt[t] = 1 /\ IsRetryable(m)
       THEN /\ attempt' = [attempt EXCEPT ![t] = 2]
            /\ pc' = [pc EXCEPT ![t] = "call"]
            /\ engFile' = [engFile EXCEPT ![t] = 1]
            /\ engPct' = [engPct EXCEPT ![t] = 0]
            /\ ydlFormat' = [ydlFormat EXCEPT ![t] = "best"]
            /\ UNCHANGED <<status, errmsg, lastNotified>>
       ELSE /\ status' = [status EXCEPT ![t] = "error"]
            /\ errmsg' = [errmsg EXCEPT ![t] = m]
            /\ lastNotified' = [lastNotified EXCEPT ![t] = "error"]
            /\ pc' = [pc EXCEPT ![t] = "finErr"]
            /\ engFile' = [engFile EXCEPT ![t] = 0]
            /\ engPct' = [engPct EXCEPT ![t] = 0]
            /\ UNCHANGED <<attempt, ydlFormat>>

\* progress_hook after the lookup, "downloading": filename and status are
\* stored; the percent string is parsed next.
HookDownloadingA(t) ==
    /\ pc[t] = "hook"
    /\ hookEv[t].st = "downloading"
    /\ filename' = [filename EXCEPT ![hookTask[t]] = hookEv[t].file]
    /\ status' = [status EXCEPT ![hookTask[t]] = "downloading"]
    /\ pc' = [pc EXCEPT ![t] = "hook2"]
    /\ UNCHANGED <<runVars, cfgVars, optVars, taskVars, sideVars, paceVars, lastNotified, executor, poolSize, listVars, percent, errmsg,
                   attempt, calls, ret, failMsgs, engVars, hookVars, budget, cancelVars>>

\* progress_hook, "downloading", from float(percent_str) on: percent is
\* stored and the observers are notified; float() raising ValueError leaves
\* the hook and the engine call, and download_single_video catches it.
HookDownloadingB(t) ==
    /\ pc[t] = "hook2"
    /\ hookTask' = [hookTask EXCEPT ![t] = 0]
    /\ hookEv' = [hookEv EXCEPT ![t] = NoEvent]
    /\ IF hookEv[t].pct = PctBad
       THEN /\ FailBody(t, MsgValueError)
            /\ UNCHANGED <<percent, filename>>
       ELSE /\ percent' = [percent EXCEPT ![hookTask[t]] =
                              IF hookEv[t].pct = PctMissing THEN 0 ELSE hookEv[t].pct]
            /\ lastNotified' = [lastNotified EXCEPT ![hookTask[t]] = status[hookTask[t]]]
            /\ pc' = [pc EXCEPT ![t] = "call"]
            /\ UNCHANGED <<status, filename, errmsg, attempt, failMsgs, engVars>>
    /\ UNCHANGED <<runVars, cfgVars, optVars, taskVars, sideVars, paceVars, calls, executor, poolSize, listVars, ret, budget, cancelVars>>

\* progress_hook after the lookup, "finished".
HookFinished(t) ==
    /\ pc[t] = "hook"
    /\ hookEv[t].st = "finished"
    /\ filename' = [filename EXCEPT ![hookTask[t]] = hookEv[t].file]
    /\ status' = [status EXCEPT ![hookTask[t]] = "finished"]
    /\ percent' = [percent EXCEPT ![hookTask[t]] = 100]
    /\ lastNotified' = [lastNotified EXCEPT ![hookTask[t]] = "finished"]
    /\ pc' = [pc EXCEPT ![t] = "call"]
    /\ hookTask' = [hookTask EXCEPT ![t] = 0]
    /\ hookEv' = [hookEv EXCEPT ![t] = NoEvent]
    /\ UNCHANGED <<runVars, cfgVars, optVars, taskVars, sideVars, paceVars, executor, poolSize, listVars, errmsg,
                   attempt, calls, ret, failMsgs, engVars, budget, cancelVars>>

\* progress_hook after the lookup, "error".
HookError(t) ==
    /\ pc[t] = "hook"
    /\ hookEv[t].st = "error"
    /\ status' = [status EXCEPT ![hookTask[t]] = "error"]
    /\ errmsg' = [errmsg EXCEPT ![hookTask[t]] = MsgHookDefault]
    /\ lastNotified' = [lastNotified EXCEPT ![hookTask[t]] = "error"]
    /\ pc' = [pc EXCEPT ![t] = "call"]
    /\ hookTask' = [hookTask EXCEPT ![t] = 0]
    /\ hookEv' = [hookEv EXCEPT ![t] = NoEvent]
    /\ UNCHANGED <<runVars, cfgVars, optVars, taskVars, sideVars, paceVars, executor, poolSize, listVars, percent, filename,
                   attempt, calls, ret, failMsgs, engVars, budget, cancelVars>>

\* ---- download_single_video, after the engine call -------------------------
\* ydl.download() returns: status = "finished", percent = 100, notify.
EngineOk(t) ==
    /\ pc[t] = "call"
    /\ status' = [status EXCEPT ![t] = "finished"]
    /\ percent' = [percent EXCEPT ![t] = 100]
    /\ lastNotified' = [lastNotified EXCEPT ![t] = "finished"]
    /\ pc' = [pc EXCEPT ![t] = "finOk"]
    /\ engFile' = [engFile EXCEPT ![t] = 0]
    /\ engPct' = [engPct EXCEPT ![t] = 0]
    /\ UNCHANGED ydlFormat
    /\ UNCHANGED <<runVars, cfgVars, optVars, taskVars, sideVars, paceVars, executor, poolSize, listVars, filename, errmsg,
                   attempt, calls, ret, failMsgs, hookVars, budget, cancelVars>>

\* ydl.download() raises with message m.
EngineFail(t, m) ==
    /\ pc[t] = "call"
    /\ m \in EngineMsgs(attempt[t])
    /\ budget > 0
    /\ budget' = budget - 1
    /\ FailBody(t, m)
    /\ UNCHANGED <<runVars, cfgVars, optVars, taskVars, sideVars, paceVars, calls, executor, poolSize, listVars, percent, filename,
                   ret, hookVars, cancelVars>>

\* _finalize_success, then return True.
FinalizeSuccess(t) ==
    /\ pc[t] = "finOk"
    /\ active' = IF InSeq(t, active) THEN Remove(active, t) ELSE active
    /\ completed' = Append(completed, t)
    /\ pc' = [pc EXCEPT ![t] = "done"]
    /\ ret' = [ret EXCEPT ![t] = TRUE]
    /\ UNCHANGED <<runVars, cfgVars, optVars, taskVars, sideVars, paceVars, lastNotified, executor, poolSize, failed, progVars, attempt, calls,
                   failMsgs, engVars, hookVars, budget, cancelVars>>

\* _finalize_failure, then return False.
FinalizeFailure(t) ==
    /\ pc[t] = "finErr"
    /\ active' = IF InSeq(t, active) THEN Remove(active, t) ELSE active
    /\ failed' = Append(failed, t)
    /\ pc' = [pc EXCEPT ![t] = "done"]
    /\ ret' = [ret EXCEPT ![t] = FALSE]
    /\ UNCHANGED <<runVars, cfgVars, optVars, taskVars, sideVars, paceVars, lastNotified, executor, poolSize, completed, progVars, attempt, calls,
                   failMsgs, engVars, hookVars, budget, cancelVars>>

\* ---- cancel_all_downloads -------------------------------------------------
\* a record that does not carry the task's percent
StateRecordNoPercent(t) ==
    [url |-> taskRec[t].url, is_playlist |-> taskRec[t].is_playlist,
     index |-> taskRec[t].index, total |-> taskRec[t].total, progress |-> 0]

\* ConfigManager.save_download_state: one record per task with a url whose
\* status is not "finished".
StateRecord(t) ==
    [url |-> taskRec[t].url, is_playlist |-> taskRec[t].is_playlist,
     index |-> taskRec[t].index, total |-> taskRec[t].total, progress |-> percent[t]]

\* a save that writes a record for every task that has a url
SaveRecordsAll(tasks) ==
    LET keep == SelectSeq(tasks, LAMBDA t : Url(t) # 0)
    IN  [i \in 1..Len(keep) |-> StateRecord(keep[i])]

SaveRecords(tasks) ==
    LET keep == SelectSeq(tasks, LAMBDA t : Url(t) # 0 /\ status[t] # "finished")
    IN  [i \in 1..Len(keep) |-> StateRecord(keep[i])]

\* cancel_all_downloads up to the lock: self.active_tasks is handed to
\* save_download_state and iterated there, outside _tasks_lock (a failure to
\* write is logged and swallowed); the executor is shut down without waiting
\* and dropped.
CancelBegin(writeOk) ==
    /\ cpc = "idle"
    /\ opc # "new"
    /\ budget >= (IF writeOk THEN 1 ELSE 2)
    /\ budget' = budget - (IF writeOk THEN 1 ELSE 2)
    /\ cancelSeen' = active
    /\ unlocked' = unlocked \cup {<<"cancel_all_downloads", "iterate", "active_tasks">>}
    /\ stateFile' = IF writeOk THEN SaveRecords(active) ELSE stateFile
    /\ executor' = 0
    /\ cpc' = "locking"
    /\ UNCHANGED <<runVars, cfgVars, optVars, taskVars, sideVars, paceVars, lastNotified, poolSize, listVars, progVars, pc, attempt, calls,
                   ret, failMsgs, engVars, hookVars>>

\* cancel_all_downloads, the region under _tasks_lock, then the return.
CancelFinish ==
    /\ cpc = "locking"
    /\ status' = [t \in TaskIds |-> IF InSeq(t, active) THEN "error" ELSE status[t]]
    /\ errmsg' = [t \in TaskIds |-> IF InSeq(t, active) THEN MsgCancelled ELSE errmsg[t]]
    /\ failed' = failed \o active
    /\ active' = <<>>
    /\ cpc' = "returned"
    /\ UNCHANGED <<runVars, cfgVars, optVars, taskVars, sideVars, paceVars, lastNotified, executor, poolSize, completed, percent, filename,
                   pc, attempt, calls, ret, failMsgs, engVars, hookVars, budget,
                   cancelSeen, stateFile, unlocked>>

Next ==
    \/ \E k \in {"single", "playlist"}, stage \in SetupStages : DownloadSetupFails(k, stage)
    \/ \E metaOk \in BOOLEAN : DownloadSingle(metaOk)
    \/ SingleCall
    \/ SingleReturn
    \/ \E recs \in ResumeInputs, metaOk \in BOOLEAN : Resume(recs, metaOk)
    \/ \E k \in 1..MaxInputs : DownloadPlaylist(k)
    \/ \E t \in TaskIds : SeqCall(t)
    \/ SeqReturn
    \/ \E t \in TaskIds : Submit(t)
    \/ \E t \in TaskIds : WorkerStart(t)
    \/ ParReturn
    \/ \E t \in TaskIds, k \in 1..MaxFiles, p \in PctVals \cup {PctMissing, PctBad},
          tagged \in BOOLEAN :
          EmitDownloading(t, k, p, IF tagged THEN Url(t) ELSE 0)
    \/ \E t \in TaskIds, tagged \in BOOLEAN : EmitFinished(t, IF tagged THEN Url(t) ELSE 0)
    \/ \E t \in TaskIds, tagged \in BOOLEAN : EmitError(t, IF tagged THEN Url(t) ELSE 0)
    \/ \E t \in TaskIds : HookDownloadingA(t)
    \/ \E t \in TaskIds : HookDownloadingB(t)
    \/ \E t \in TaskIds : HookFinished(t)
    \/ \E t \in TaskIds : HookError(t)
    \/ \E t \in TaskIds : EngineOk(t)
    \/ \E t \in TaskIds, m \in EngineMsgs(1) \cup EngineMsgs(2) : EngineFail(t, m)
    \/ \E t \in TaskIds : FinalizeSuccess(t)
    \/ \E t \in TaskIds : FinalizeFailure(t)
    \/ \E w \in BOOLEAN : CancelBegin(w)
    \/ CancelFinish

Spec == Init /\ [][Next]_vars

\* ==== ConfigManager: the download state file =================================
\* a downloader on which no run is started
QuietDownloader ==
    /\ maxWorkers = 1
    /\ optsValid = TRUE
    /\ executor = 0
    /\ budget = MaxInputs
    /\ FreshDownloader

\* the tasks handed to save_download_state
StoreTasks == <<1, 2>>

\* Two tasks of a collection run, each with or without a url, each
\* downloading or finished, each at some percent; no state file yet.
StoreInit ==
    /\ QuietDownloader
    /\ \E urls \in [{1, 2} -> BOOLEAN] :
          taskRec = [t \in TaskIds |->
                        IF t <= 2
                        THEN [PlaylistTask(t - 1, 2) EXCEPT !.url = IF urls[t] THEN t ELSE 0]
                        ELSE NoTask]
    /\ \E sts \in [{1, 2} -> {"downloading", "finished"}] :
          status = [t \in TaskIds |-> IF t <= 2 THEN sts[t] ELSE "waiting"]
    /\ \E pcts \in [{1, 2} -> {0} \cup PctVals] :
          percent = [t \in TaskIds |-> IF t <= 2 THEN pcts[t] ELSE 0]
    /\ stateFile = <<>>
    /\ sleepInterval = NotRead
    /\ StoreIdle
    /\ HubIdle
    /\ GuardIdle
    /\ LoopIdle

\* timedelta.days of a non-negative difference of h hours
Days(h) == h \div HoursPerDay

\* a staleness test on the hours elapsed
IsStaleByHours(h) == h > StaleDays * HoursPerDay

\* (datetime.now() - timestamp).days > 7
IsStale(h) == Days(h) > StaleDays

\* load_download_state for a file that holds recs and was stamped h hours ago
LoadState(exists, recs, h) ==
    IF ~exists THEN <<>>
    ELSE IF IsStale(h) THEN <<>>
    ELSE recs

\* save_download_state(tasks): the records and the timestamp are written
SaveDownloadState ==
    /\ spc = "idle"
    /\ stateFile' = SaveRecords(StoreTasks)
    /\ fileStamp' = now
    /\ spc' = "saved"
    /\ UNCHANGED <<now, loaded, loadAge, fileCond, hubVars, loopVars, guardVars, paceVars, lastNotified, cfgVars, optVars, taskVars, runVars, executor,
                   poolSize, listVars, progVars, pc, attempt, calls, ret, failMsgs, engVars,
                   hookVars, budget, cpc, cancelSeen, unlocked>>

\* h hours pass
ClockAdvance(h) ==
    /\ spc = "saved"
    /\ now + h <= MaxHours
    /\ now' = now + h
    /\ UNCHANGED <<fileStamp, spc, loaded, loadAge, fileCond, stateFile, hubVars, loopVars, guardVars, paceVars, lastNotified, cfgVars, optVars, taskVars,
                   runVars, executor, poolSize, listVars, progVars, pc, attempt, calls, ret,
                   failMsgs, engVars, hookVars, budget, cpc, cancelSeen, unlocked>>

\* what load_download_state() can find on disk: the file as written, no file,
\* a file json.load rejects, a file without "timestamp", a file whose
\* "timestamp" datetime.fromisoformat rejects
FileConds == {"ok", "missing", "unreadable", "no_timestamp", "bad_timestamp"}

\* the statements inside the try of load_download_state: json.load and
\* datetime.fromisoformat raise on a damaged file, before the tasks are read
LoadBody(cond, recs, h) ==
    IF cond \in {"unreadable", "no_timestamp", "bad_timestamp"}
    THEN [raised |-> TRUE, value |-> <<>>]
    ELSE [raised |-> FALSE, value |-> LoadState(cond # "missing", recs, h)]

\* a load that takes the tasks of a file without timestamp as fresh
TryLoadSalvage(cond, recs, h) ==
    IF cond = "no_timestamp"
    THEN [raised |-> FALSE, value |-> recs]
    ELSE [raised |-> FALSE, value |-> LoadBody(cond, recs, h).value]

\* load_download_state(): try ... except Exception: return []
TryLoad(cond, recs, h) ==
    LET body == LoadBody(cond, recs, h)
    IN  IF body.raised THEN [raised |-> FALSE, value |-> <<>>] ELSE body

\* load_download_state() on a file in condition cond
LoadDownloadState(cond) ==
    /\ spc = "saved"
    /\ LET out == TryLoad(cond, stateFile, now - fileStamp)
       IN  /\ loaded' = out.value
           /\ spc' = IF out.raised THEN "raised" ELSE "loaded"
    /\ loadAge' = now - fileStamp
    /\ fileCond' = cond
    /\ UNCHANGED <<fileStamp, now, stateFile, hubVars, loopVars, guardVars, paceVars, lastNotified, cfgVars, optVars, taskVars, runVars, executor,
                   poolSize, listVars, progVars, pc, attempt, calls, ret, failMsgs, engVars,
                   hookVars, budget, cpc, cancelSeen, unlocked>>

StoreNext ==
    \/ SaveDownloadState
    \/ \E h \in {1, HoursPerDay} : ClockAdvance(h)
    \/ \E cond \in FileConds : LoadDownloadState(cond)

StoreSpec == StoreInit /\ [][StoreNext]_vars

\* ==== notify_progress ========================================================
\* what a registered callback does when called
CallbackKinds == {"ok", "raises"}

HubInit ==
    /\ QuietDownloader
    /\ status = [t \in TaskIds |-> "waiting"]
    /\ percent = [t \in TaskIds |-> 0]
    /\ taskRec = [t \in TaskIds |-> NoTask]
    /\ stateFile = <<>>
    /\ sleepInterval = NotRead
    /\ StoreIdle
    /\ HubIdle
    /\ GuardIdle
    /\ LoopIdle

hubFrame == <<storeVars, loopVars, guardVars, paceVars, lastNotified, stateFile, cfgVars, optVars, taskVars, runVars, executor, poolSize,
              listVars, progVars, pc, attempt, calls, ret, failMsgs, engVars, hookVars,
              budget, cpc, cancelSeen, unlocked>>

\* add_progress_callback(callback)
AddProgressCallback(b) ==
    /\ npc # "propagated"
    /\ Len(progressCallbacks) < MaxCallbacks
    /\ progressCallbacks' = Append(progressCallbacks, b)
    /\ UNCHANGED <<snapshot, npos, delivered, npc, hubFrame>>

\* notify_progress(task): list(self.progress_callbacks) is taken
NotifyBegin ==
    /\ npc \in {"idle", "returned"}
    /\ snapshot' = progressCallbacks
    /\ npos' = 1
    /\ delivered' = <<>>
    /\ npc' = "loop"
    /\ UNCHANGED <<progressCallbacks, hubFrame>>

\* a loop body without the try: an exception of the callback leaves notify_progress
NotifyCallNoCatch ==
    /\ npc = "loop"
    /\ npos <= Len(snapshot)
    /\ delivered' = Append(delivered, npos)
    /\ IF snapshot[npos] = "raises"
       THEN npc' = "propagated" /\ UNCHANGED npos
       ELSE npos' = npos + 1 /\ UNCHANGED npc
    /\ UNCHANGED <<progressCallbacks, snapshot, hubFrame>>

\* one round of the loop: callback(task) inside try/except Exception; an
\* exception is logged and the loop goes on
NotifyCall ==
    /\ npc = "loop"
    /\ npos <= Len(snapshot)
    /\ delivered' = Append(delivered, npos)
    /\ npos' = npos + 1
    /\ UNCHANGED <<npc, progressCallbacks, snapshot, hubFrame>>

\* the loop is exhausted: notify_progress returns
NotifyReturn ==
    /\ npc = "loop"
    /\ npos > Len(snapshot)
    /\ npc' = "returned"
    /\ UNCHANGED <<progressCallbacks, snapshot, npos, delivered, hubFrame>>

HubNext ==
    \/ \E b \in CallbackKinds : AddProgressCallback(b)
    \/ NotifyBegin
    \/ NotifyCall
    \/ NotifyReturn

HubSpec == HubInit /\ [][HubNext]_vars

\* ==== _download_sequential, the pause before each task ========================
\* The loop of _download_sequential on its own: download_single_video is
\* reduced to a call that returns, the list has MaxSeqLen tasks, and
\* sleep_interval is any of 0..MaxSleep.
PauseInit ==
    /\ QuietDownloader
    /\ status = [t \in TaskIds |-> "waiting"]
    /\ percent = [t \in TaskIds |-> 0]
    /\ taskRec = [t \in TaskIds |-> NoTask]
    /\ stateFile = <<>>
    /\ StoreIdle
    /\ HubIdle
    /\ GuardIdle
    /\ sleepInterval \in 0..MaxSleep
    /\ seqIdx = 0
    /\ waits = <<>>
    /\ ppc = "top"

pauseFrame == <<storeVars, hubVars, guardVars, stateFile, cfgVars, optVars, taskVars, runVars, executor, poolSize,
                listVars, progVars, pc, attempt, calls, ret, failMsgs, engVars, hookVars,
                budget, cpc, cancelSeen, unlocked, lastNotified, mainLog, sleepInterval>>

\* a pause computed without the cap of sleep_interval
LoopPauseUncapped ==
    /\ ppc = "top"
    /\ seqIdx < MaxSeqLen
    /\ IF seqIdx > 0
       THEN waits' = Append(waits, 1 + seqIdx \div 20)
       ELSE UNCHANGED waits
    /\ ppc' = "body"
    /\ UNCHANGED <<seqIdx, pauseFrame>>

\* top of the loop body for idx: `if idx > 0:` wait_time is computed and
\* slept
LoopPause ==
    /\ ppc = "top"
    /\ seqIdx < MaxSeqLen
    /\ IF seqIdx > 0
       THEN waits' = Append(waits, WaitTime(seqIdx, sleepInterval))
       ELSE UNCHANGED waits
    /\ ppc' = "body"
    /\ UNCHANGED <<seqIdx, pauseFrame>>

\* download_single_video(task) returns; the loop moves to idx + 1
LoopCall ==
    /\ ppc = "body"
    /\ seqIdx' = seqIdx + 1
    /\ ppc' = "top"
    /\ UNCHANGED <<waits, pauseFrame>>

\* the list is exhausted
LoopReturn ==
    /\ ppc = "top"
    /\ seqIdx = MaxSeqLen
    /\ ppc' = "returned"
    /\ UNCHANGED <<seqIdx, waits, pauseFrame>>

PauseNext ==
    \/ LoopPause
    \/ LoopCall
    \/ LoopReturn

PauseSpec == PauseInit /\ [][PauseNext]_vars

\* ==== _tasks_lock and the progress callbacks ================================
\* Two worker threads run download_single_video, each with progress events
\* from the engine; one callback is registered. Only the lock and the
\* position of each thread are followed.

\* what the registered callback does with a notification: it returns, or it
\* calls cancel_all_downloads() from the notifying thread
ObserverKinds == {"plain", "cancels"}

\* positions at which a thread is inside notify_progress: line 195, lines
\* 114/120/126 of progress_hook, lines 206/224/233
NotifyAt == {"notify195", "notifyHook", "notifyEnd"}

\* where a thread goes on when notify_progress returns
AfterNotify(pos) ==
    IF pos = "notify195" THEN "engine"
    ELSE IF pos = "notifyHook" THEN "engine"
    ELSE "finalize"

GuardInit ==
    /\ QuietDownloader
    /\ status = [t \in TaskIds |-> "waiting"]
    /\ percent = [t \in TaskIds |-> 0]
    /\ taskRec = [t \in TaskIds |-> NoTask]
    /\ stateFile = <<>>
    /\ sleepInterval = NotRead
    /\ StoreIdle
    /\ HubIdle
    /\ LoopIdle
    /\ lockHolder = 0
    /\ gpc = [x \in LockThreads |-> "notify195"]
    /\ inCancel = [x \in LockThreads |-> FALSE]
    /\ observer \in ObserverKinds

guardFrame == <<storeVars, hubVars, loopVars, stateFile, cfgVars, optVars, taskVars, runVars, executor,
                poolSize, listVars, progVars, pc, attempt, calls, ret, failMsgs, engVars,
                hookVars, budget, cpc, cancelSeen, unlocked, lastNotified, mainLog,
                sleepInterval>>

\* notify_progress calls the callback, which returns
NotifyPlain(x) ==
    /\ gpc[x] \in NotifyAt
    /\ observer = "plain"
    /\ gpc' = [gpc EXCEPT ![x] = AfterNotify(@)]
    /\ UNCHANGED <<lockHolder, inCancel, observer, guardFrame>>

\* the callback calls cancel_all_downloads, which reaches
\* `with self._tasks_lock` and takes the lock: threading.Lock is not
\* reentrant, the thread waits until nobody holds it, itself included
CallbackCancelLock(x) ==
    /\ gpc[x] \in NotifyAt
    /\ observer = "cancels"
    /\ ~inCancel[x]
    /\ lockHolder = 0
    /\ lockHolder' = x
    /\ inCancel' = [inCancel EXCEPT ![x] = TRUE]
    /\ UNCHANGED <<gpc, observer, guardFrame>>

\* cancel_all_downloads leaves its lock region and returns, the callback
\* and notify_progress return
CallbackCancelReturn(x) ==
    /\ inCancel[x]
    /\ lockHolder' = 0
    /\ inCancel' = [inCancel EXCEPT ![x] = FALSE]
    /\ gpc' = [gpc EXCEPT ![x] = AfterNotify(@)]
    /\ UNCHANGED <<observer, guardFrame>>

\* the engine calls progress_hook, which takes the lock for its lookup
HookLock(x) ==
    /\ gpc[x] = "engine"
    /\ lockHolder = 0
    /\ lockHolder' = x
    /\ gpc' = [gpc EXCEPT ![x] = "lookup"]
    /\ UNCHANGED <<inCancel, observer, guardFrame>>

\* a progress_hook that notifies from inside its lock region
HookNotifyLocked(x, found) ==
    /\ gpc[x] = "lookup"
    /\ gpc' = [gpc EXCEPT ![x] = IF found THEN "notifyHook" ELSE "engine"]
    /\ lockHolder' = IF found THEN lockHolder ELSE 0
    /\ UNCHANGED <<inCancel, observer, guardFrame>>

\* progress_hook leaves the lock region; with a task found it goes on to
\* update the task and notify, without one it returns to the engine
HookUnlock(x, found) ==
    /\ gpc[x] = "lookup"
    /\ lockHolder' = 0
    /\ gpc' = [gpc EXCEPT ![x] = IF found THEN "notifyHook" ELSE "engine"]
    /\ UNCHANGED <<inCancel, observer, guardFrame>>

\* the engine call returns or raises: the status is set and notify_progress
\* is called, before the finalizer
EngineReturns(x) ==
    /\ gpc[x] = "engine"
    /\ gpc' = [gpc EXCEPT ![x] = "notifyEnd"]
    /\ UNCHANGED <<lockHolder, inCancel, observer, guardFrame>>

\* _finalize_success / _finalize_failure takes the lock
FinalizeLock(x) ==
    /\ gpc[x] = "finalize"
    /\ lockHolder = 0
    /\ lockHolder' = x
    /\ gpc' = [gpc EXCEPT ![x] = "finalizing"]
    /\ UNCHANGED <<inCancel, observer, guardFrame>>

\* the finalizer leaves its lock region, download_single_video returns
FinalizeUnlock(x) ==
    /\ gpc[x] = "finalizing"
    /\ lockHolder' = 0
    /\ gpc' = [gpc EXCEPT ![x] = "done"]
    /\ UNCHANGED <<inCancel, observer, guardFrame>>

\* the steps of thread x
ThreadStep(x) ==
    \/ NotifyPlain(x)
    \/ CallbackCancelLock(x)
    \/ CallbackCancelReturn(x)
    \/ HookLock(x)
    \/ \E found \in BOOLEAN : HookUnlock(x, found)
    \/ EngineReturns(x)
    \/ FinalizeLock(x)
    \/ FinalizeUnlock(x)

GuardNext == \E x \in LockThreads : ThreadStep(x)

GuardSpec == GuardInit /\ [][GuardNext]_vars

\* ==== properties ===========================================================

Created == 1..n

\* engine calls in progress
EngineCalls == {t \in TaskIds : InEngine(t)}

\* no other thread acts on a task while its download_single_video runs:
\* the calls of the run do not overlap and cancel_all has not been called
Unshared == cpc = "idle" /\ (maxWorkers = 1 \/ n = 1)

\* C1: once a task's status is "finished" or "error" it never changes again.
C1_TerminalStatusStays ==
    [][\A t \in TaskIds :
          status[t] \in {"finished", "error"} => status'[t] = status[t]]_vars

C3_PartialSuccessPartition ==
    (kind = "playlist" /\ opc = "returned" /\ n > 0 /\ cpc = "idle") =>
        /\ result = (\E t \in Created : ret[t])
        /\ \A t \in Created :
              /\ ~InSeq(t, active)
              /\ ret[t] => (Count(t, completed) = 1 /\ Count(t, failed) = 0)
              /\ ~ret[t] => (Count(t, failed) = 1 /\ Count(t, completed) = 0)

\* C4: with two active tasks that have no filename, two "downloading" events
\* without a source identifier, for two distinct files, delivered by two
\* worker threads whose hooks are both past the lookup, are attributed to
\* two distinct tasks.
C4_DistinctAttribution ==
    \A a, b \in TaskIds :
        ( /\ a # b
          /\ pc[a] = "hook" /\ pc[b] = "hook"
          /\ hookEv[a].st = "downloading" /\ hookEv[b].st = "downloading"
          /\ hookEv[a].src = 0 /\ hookEv[b].src = 0
          /\ hookEv[a].file # hookEv[b].file
          /\ Cardinality({i \in 1..Len(active) : filename[active[i]] = 0}) >= 2 )
        => hookTask[a] # hookTask[b]

\* C5: percent never decreases from one state with status "downloading" to
\* the next.
C5_PercentMonotone ==
    [][\A t \in TaskIds :
          (status[t] = "downloading" /\ status'[t] = "downloading")
              => percent'[t] >= percent[t]]_vars

\* C6: a task whose status is "finished" has percent 100.
C6_FinishedIsHundred ==
    \A t \in TaskIds : status[t] = "finished" => percent[t] = 100

\* C7: once cancel_all() has returned, no engine call starts for a task whose
\* engine call had not started before.
C7_NoStartAfterCancel ==
    [][cpc = "returned" =>
          \A t \in TaskIds : attempt[t] = 0 => attempt'[t] = 0]_vars

\* C8: when cancel_all() returns, active is empty and every task that was
\* active when it was called is in failed, with status "error" and the
\* cancellation message, whether or not the state file was written.
C8_CancelReclassifies ==
    [][(cpc = "locking" /\ cpc' = "returned") =>
          /\ active' = <<>>
          /\ \A i \in 1..Len(cancelSeen) :
                /\ InSeq(cancelSeen[i], failed')
                /\ status'[cancelSeen[i]] = "error"
                /\ errmsg'[cancelSeen[i]] = MsgCancelled]_vars

\* the first engine call of t raised a retryable message and no later call raised
RetrySucceeded(t) ==
    /\ pc[t] = "done"
    /\ Len(failMsgs[t]) = 1
    /\ IsRetryable(failMsgs[t][1])

\* C9: when the first engine call fails with a message containing "requested
\* format is not available" and the second succeeds, download_single_video
\* returns true and the task has status "finished", percent 100, is in
\* completed and is not in failed (no other thread acting on the task).
C9_RetrySuccess ==
    \A t \in Created :
        (Unshared /\ RetrySucceeded(t)) =>
            /\ ret[t]
            /\ attempt[t] = 2
            /\ status[t] = "finished"
            /\ percent[t] = 100
            /\ InSeq(t, completed)
            /\ ~InSeq(t, failed)

\* C9 witness: a task finished by its retry.
C9_Witness ==
    \E t \in Created :
        Unshared /\ RetrySucceeded(t) /\ ret[t] /\ status[t] = "finished" /\ InSeq(t, completed)

\* both engine calls of t raised
RetryFailed(t) ==
    /\ pc[t] = "done"
    /\ Len(failMsgs[t]) = 2

\* C10: when the first engine call fails with a retryable message and the
\* retry fails too, download_single_video returns false and the task has
\* status "error", is in failed, and its error_message is the message of the
\* second failure, not of the first (no other thread acting on the task).
C10_RetryFailure ==
    \A t \in Created :
        (Unshared /\ RetryFailed(t)) =>
            /\ ~ret[t]
            /\ status[t] = "error"
            /\ InSeq(t, failed)
            /\ ~InSeq(t, completed)
            /\ errmsg[t] = failMsgs[t][2]
            /\ errmsg[t] # failMsgs[t][1]

\* C10 witness: a task failed by its retry, the retry's message recorded.
C10_Witness ==
    \E t \in Created :
        /\ Unshared /\ RetryFailed(t)
        /\ IsRetryable(failMsgs[t][1])
        /\ status[t] = "error" /\ errmsg[t] = failMsgs[t][2] /\ InSeq(t, failed)

\* C11: load_download_state() returns the empty list for every stored
\* timestamp more than 7 days old, the age taken in hours (7 days and 1
\* hour is more than 7 days), and the full stored list for every age of 7
\* days or less.
C11_StalenessByHours ==
    (spc = "loaded" /\ fileCond = "ok") =>
        /\ IsStaleByHours(loadAge) => loaded = <<>>
        /\ ~IsStaleByHours(loadAge) => loaded = stateFile

\* urls of the records of a state file, in order
RecordUrls(recs) == [i \in 1..Len(recs) |-> recs[i].url]

\* C12: the record written by save_download_state, called by cancel_all,
\* holds no task whose status is "finished" when it is written.
C12_NoFinishedSaved ==
    [][stateFile' # stateFile =>
          \A i \in 1..Len(stateFile') : \A t \in 1..n :
              Url(t) = stateFile'[i].url => status[t] # "finished"]_vars

\* C12 witness: of three active tasks the second is finished when cancel_all
\* saves the state, and the file holds exactly the first and the third.
C12_Witness ==
    /\ cpc = "locking"
    /\ cancelSeen = <<1, 2, 3>>
    /\ status[2] = "finished"
    /\ RecordUrls(stateFile) = <<Url(1), Url(3)>>

\* tasks that have been created
Slots == {t \in TaskIds : taskRec[t] # NoTask}

\* every list a task can be in, concatenated
AllLists == active \o completed \o failed

\* C13: a collection run over N enumerated URLs creates exactly N tasks, the
\* task of the i-th URL has index i, and every task has total N.
C13_IndexAndTotal ==
    (kind = "playlist" /\ opc # "setupFailed") =>
        /\ n >= 1
        /\ Slots = 1..n
        /\ \A t \in 1..n :
              /\ taskRec[t].url = t
              /\ taskRec[t].index = t
              /\ taskRec[t].total = n
              /\ InSeq(t, AllLists)
        /\ \A i \in 1..Len(AllLists) : AllLists[i] \in 1..n

\* C13 witness: a collection run of three URLs; the third task has index 3
\* of 3.
C13_Witness ==
    /\ kind = "playlist"
    /\ n = 3
    /\ taskRec[3].url = 3 /\ taskRec[3].index = 3 /\ taskRec[3].total = 3
    /\ taskRec[1].index = 1

\* C14: when notify_progress runs, a callback that raises does not keep any
\* later callback of the list from being called, and no exception leaves
\* notify_progress: it returns to progress_hook or download_single_video
\* after having called every callback, in order.
C14_ObserverIsolation ==
    /\ npc # "propagated"
    /\ npc = "returned" => delivered = [i \in 1..Len(snapshot) |-> i]
    /\ npc = "loop" => delivered = [i \in 1..(npos - 1) |-> i]

\* C14 witness: notify_progress returned after a callback raised and a
\* callback registered after it was called.
C14_Witness ==
    /\ npc = "returned"
    /\ \E i, j \in 1..Len(snapshot) :
          /\ i < j
          /\ snapshot[i] = "raises"
          /\ InSeq(j, delivered)

\* C15: a "downloading" event whose percentage string float() rejects leaves
\* the task's percent unchanged, and the hook returns to the engine without
\* an exception: the engine call goes on and no failure is recorded.
C15_UnparsablePercent ==
    [][\A t \in TaskIds :
          (pc[t] = "hook2" /\ hookEv[t].pct = PctBad /\ pc'[t] # "hook2") =>
              /\ percent' = percent
              /\ pc'[t] = "call"
              /\ failMsgs'[t] = failMsgs[t]]_vars

\* C16: every insertion into, removal from and iteration over active,
\* completed and failed is made while _tasks_lock is held: no operation
\* has accessed one of the lists outside the lock.
C16_AllAccessLocked == unlocked = {}

\* C17: in a batch run without cancellation a failure of one task never
\* aborts its siblings: when the run has ended it has returned (not raised),
\* and download_single_video was called for every task of the batch and
\* returned after the task reached "finished" or "error".
C17_SiblingsAttempted ==
    (kind \in {"playlist", "resume"} /\ n > 0 /\ cpc = "idle" /\ opc \in {"returned", "raised"}) =>
        /\ opc = "returned"
        /\ \A t \in 1..n : pc[t] = "done" /\ attempt[t] >= 1

\* C18: when a setup step of a run fails (collection metadata, enumeration
\* raising or empty, creation of an output directory), the run returns false,
\* no task has been created, no engine call is made, and active, completed
\* and failed are as they were (empty).
C18_SetupFailure ==
    opc = "setupFailed" =>
        /\ result = FALSE
        /\ n = 0
        /\ Slots = {}
        /\ active = <<>> /\ completed = <<>> /\ failed = <<>>
        /\ \A t \in TaskIds : attempt[t] = 0 /\ pc[t] = "idle" /\ status[t] = "waiting"

\* C18 witness: a collection run whose setup failed, cancel_all called
\* afterwards.
C18_Witness ==
    /\ opc = "setupFailed"
    /\ kind = "playlist"
    /\ cpc = "returned"
    /\ result = FALSE
    /\ active = <<>>

\* C19: a single-item run whose metadata resolution failed still creates
\* exactly one task, without metadata and with index 0 and total 0, calls
\* download_single_video for it, and returns what that call returned.
C19_SingleWithoutMetadata ==
    (kind = "single" /\ opc \in {"single", "returned"} /\ taskRec[1].info = "none") =>
        /\ n = 1
        /\ Slots = {1}
        /\ taskRec[1] = [url |-> 1, index |-> 0, total |-> 0, is_playlist |-> FALSE, info |-> "none"]
        /\ InSeq(1, AllLists)
        /\ opc = "returned" => (pc[1] # "idle" /\ result = ret[1])

\* C19 witness: a single-item run without metadata that returned true, its
\* task completed.
C19_Witness ==
    /\ kind = "single"
    /\ opc = "returned"
    /\ taskRec[1].info = "none"
    /\ attempt[1] >= 1
    /\ result = TRUE
    /\ ret[1] = TRUE
    /\ InSeq(1, completed)

\* C20: resume_downloads returns false, adds no task to active and makes no
\* engine call, when load_download_state() yields no record or no record
\* with a url.
C20_ResumeNothing ==
    (kind = "resume" /\ \A i \in 1..Len(loaded) : loaded[i].url = 0) =>
        /\ opc = "returned"
        /\ result = FALSE
        /\ n = 0
        /\ Slots = {}
        /\ AllLists = <<>>
        /\ \A t \in TaskIds : attempt[t] = 0 /\ pc[t] = "idle"

\* C20 witness: resume_downloads returned false on a record list whose only
\* record has no url.
C20_Witness ==
    /\ kind = "resume"
    /\ loaded = <<RecNoUrl>>
    /\ opc = "returned"
    /\ result = FALSE
    /\ active = <<>>

\* C21: download_single_video calls the engine at most twice for a task.
\* The second call is made exactly when the first one raised with a message
\* containing "requested format is not available", and it is made with
\* format "best". A failure of the second call is final whatever its
\* message; any other failure of the first call is final after that one
\* engine call. A final failure puts the task in failed.
C21_BoundedRetry ==
    \A t \in TaskIds :
        /\ attempt[t] <= 2
        /\ Len(failMsgs[t]) <= attempt[t]
        /\ attempt[t] = 2 <=> (Len(failMsgs[t]) >= 1 /\ IsRetryable(failMsgs[t][1]))
        /\ InEngine(t) => ydlFormat[t] = (IF attempt[t] = 2 THEN "best" ELSE "selector")
        /\ (Len(failMsgs[t]) = 2
            \/ (Len(failMsgs[t]) = 1 /\ ~IsRetryable(failMsgs[t][1]))) =>
               /\ pc[t] \in {"finErr", "done"}
               /\ pc[t] = "done" => (InSeq(t, failed) /\ ~ret[t])

\* C21 witness: a task whose first engine call failed with the retryable
\* message and whose second call, made with "best", failed with a message
\* of the same class: it is in failed after two engine calls.
C21_Witness ==
    \E t \in Created :
        /\ failMsgs[t] = <<MsgFormatA, MsgFormatB>>
        /\ attempt[t] = 2
        /\ ydlFormat[t] = "best"
        /\ pc[t] = "done"
        /\ InSeq(t, failed)

\* the tasks the batch thread has submitted to the pool, in order
Submitted == SelectSeq(mainLog, LAMBDA e : e[1] = "submit")

\* C22: a parallel run submits its tasks in list order, in consecutive
\* batches of min(max_workers, 10); no task of a batch is started before
\* every task of the batch before it has reached a terminal outcome (its
\* call returned, the task in completed or failed); and the thread sleeps
\* sleep_interval seconds before every batch but the first, and at no other
\* point.
C22_BatchesInOrder ==
    opc \in {"par", "returned", "raised"} /\ maxWorkers > 1 /\ kind \in {"playlist", "resume"} =>
        /\ \A i \in 1..Len(Submitted) : Submitted[i][2] = i
        /\ \A t, u \in Created :
              (BatchOf(u) < BatchOf(t) /\ pc[t] # "idle") =>
                  /\ pc[u] = "done"
                  /\ InSeq(u, completed \o failed)
        /\ \A i \in 1..Len(mainLog) :
              /\ mainLog[i][1] = "sleep" =>
                    /\ mainLog[i][2] = sleepInterval
                    /\ i > 1 /\ mainLog[i-1][1] = "submit"
                    /\ (mainLog[i-1][2]) % Min(maxWorkers, ParallelCap) = 0
              /\ (mainLog[i][1] = "submit" /\ mainLog[i][2] > 1
                  /\ (mainLog[i][2] - 1) % Min(maxWorkers, ParallelCap) = 0) =>
                    mainLog[i-1][1] = "sleep"

\* positions of active that hold a task of S
Positions(S) == {i \in 1..Len(active) : active[i] \in S}

\* the active task an event (src: its URL or 0, base: its file name) belongs
\* to by the stated priorities, 0 when no active task matches
Owner(src, base) ==
    LET first(I) == active[CHOOSE i \in I : \A j \in I : i <= j]
        sameUrl == Positions({c \in TaskIds : src # 0 /\ Url(c) = src})
        sameName == Positions({c \in TaskIds : filename[c] # 0 /\ filename[c] = base})
        unnamed == Positions({c \in TaskIds : filename[c] = 0})
    IN  IF sameUrl # {} THEN first(sameUrl)
        ELSE IF sameName # {} THEN first(sameName)
        ELSE IF unnamed # {} THEN first(unnamed)
        ELSE 0

\* the hook called in thread t for the event settles on Owner, or drops the
\* event: no task field, list or notification changes
RoutedTo(t, src, base) ==
    IF Owner(src, base) = 0
    THEN UNCHANGED <<progVars, lastNotified, listVars, hookVars, pc, taskVars>>
    ELSE hookTask'[t] = Owner(src, base) /\ pc'[t] = "hook"

\* a step in which an engine calls progress_hook: the one input a step
\* takes that starts no run, no cancellation and fails no engine call
EventStep ==
    /\ budget' = budget - 1
    /\ opc' = opc
    /\ cpc' = cpc
    /\ failMsgs' = failMsgs

\* C23: progress_hook resolves the task an event is for among the active
\* tasks, in this order: the task whose url is the URL the event carries,
\* if it carries one; else the task whose recorded filename is the event's
\* file name; else the first active task without a filename. When no active
\* task matches, the event changes no task and no observer is notified.
C23_RoutingPriority ==
    [][EventStep =>
          \A t \in EngineCalls, tagged \in BOOLEAN :
             LET src == IF tagged THEN Url(t) ELSE 0
             IN  /\ \A k \in {engFile[t], engFile[t] + 1}, p \in PctVals \cup {PctMissing, PctBad} :
                       EmitDownloading(t, k, p, src) => RoutedTo(t, src, FileName(t, k))
                 /\ EmitFinished(t, src) => RoutedTo(t, src, FileName(t, engFile[t]))
                 /\ EmitError(t, src) => RoutedTo(t, src, FileName(t, engFile[t]))]_vars

\* C23 witness: the hook settled on the task whose url the event carries
\* while another active task has the event's file name recorded.
C23_Witness ==
    \E t, u \in Created :
        /\ u # t
        /\ pc[t] = "hook"
        /\ hookEv[t].src = Url(t)
        /\ hookTask[t] = t
        /\ InSeq(u, active)
        /\ filename[u] = hookEv[t].file

\* the tasks _download_sequential has called download_single_video for, in order
Called == SelectSeq(mainLog, LAMBDA e : e[1] = "call")

\* C24: a sequential batch run calls download_single_video for its tasks in
\* list order, a task only after the call for the task before it has
\* returned, and when it returns it returns true iff the call of at least
\* one task returned true.
C24_SequentialOrder ==
    (kind \in {"playlist", "resume"} /\ maxWorkers <= 1 /\ n > 0) =>
        /\ \A i \in 1..Len(Called) : Called[i][2] = i
        /\ \A t \in Created : calls[t] = Count(<<"call", t>>, mainLog)
        /\ \A t \in Created : (t > 1 /\ calls[t] > 0) => pc[t - 1] = "done"
        /\ (opc = "returned" /\ \A t \in Created : pc[t] = "done") =>
              result = (\E t \in Created : ret[t])

\* C24 witness: a sequential run of two tasks returned true; the first
\* task failed, the second was called after it and succeeded.
C24_Witness ==
    /\ kind = "playlist"
    /\ maxWorkers = 1
    /\ n = 2
    /\ opc = "returned"
    /\ result = TRUE
    /\ Called = <<<<"call", 1>>, <<"call", 2>>>>
    /\ ret[1] = FALSE
    /\ ret[2] = TRUE

\* C25: _download_sequential does not pause before the first task; before
\* the task at 0-based position p >= 1 it pauses min(sleep_interval,
\* 1 + floor(p / 20)) seconds; the pauses never decrease from one task to the
\* next and none is longer than sleep_interval.
C25_SequentialPause ==
    ppc \in {"top", "body", "returned"} =>
        /\ Len(waits) = (IF ppc = "body" THEN seqIdx
                         ELSE IF seqIdx = 0 THEN 0 ELSE seqIdx - 1)
        /\ \A p \in 1..Len(waits) :
              \E q \in 0..p :
                 /\ 20 * q <= p /\ p < 20 * (q + 1)
                 /\ waits[p] = (IF sleepInterval < 1 + q THEN sleepInterval ELSE 1 + q)
        /\ \A p \in 1..Len(waits) : waits[p] <= sleepInterval
        /\ \A p \in 2..Len(waits) : waits[p - 1] <= waits[p]

\* C25 witness: with sleep_interval 4 the loop reached position 40 having
\* paused 1 second before position 19, 2 before position 20 and 3 before
\* position 40, and not before position 0.
C25_Witness ==
    /\ ppc = "body"
    /\ sleepInterval = 4
    /\ seqIdx = 40
    /\ Len(waits) = 40
    /\ waits[19] = 1
    /\ waits[20] = 2
    /\ waits[40] = 3

\* C26: the pool a parallel run submits its tasks to has min(max_workers, 10)
\* threads, max_workers being that of the run, also when an earlier parallel
\* run of the same downloader had another max_workers.
C26_PoolSizedToRun ==
    (kind \in {"playlist", "resume"} /\ maxWorkers > 1 /\ n > 0) =>
        poolSize = Min(maxWorkers, ParallelCap)

C28_StatusChangesNotified ==
    [][\A t \in TaskIds :
          status'[t] # status[t] =>
              \/ lastNotified'[t] = status'[t]
              \/ \E x \in TaskIds : pc'[x] = "hook2" /\ hookTask'[x] = t]_vars

\* positions of the loaded records that have a url
KeptRecords == {i \in 1..Len(loaded) : loaded[i].url # 0}

\* position of the k-th loaded record that has a url
KeptRecord(k) == CHOOSE i \in KeptRecords : Cardinality({j \in KeptRecords : j <= i}) = k

\* C29: resume_downloads creates one task per loaded record that has a url,
\* in record order, with the record's url, is_playlist, index and total,
\* whether or not the metadata lookup succeeded, and none for a record
\* without url; the tasks are added to active and run by the sequential
\* loop iff max_workers <= 1, by the parallel one otherwise.
C29_ResumeRebuildsTasks ==
    kind = "resume" =>
        /\ n = Cardinality(KeptRecords)
        /\ Slots = 1..n
        /\ \A t \in 1..n :
              LET rec == loaded[KeptRecord(t)]
              IN  /\ taskRec[t].url = rec.url
                  /\ taskRec[t].is_playlist = rec.is_playlist
                  /\ taskRec[t].index = rec.index
                  /\ taskRec[t].total = rec.total
                  /\ Count(t, AllLists) >= 1
        /\ n > 0 => opc \in {"seq", "par", "returned", "raised"}
        /\ maxWorkers <= 1 => (opc # "par" /\ Submitted = <<>>)
        /\ maxWorkers > 1 => (opc # "seq" /\ Called = <<>>)
        /\ (n > 0 /\ opc = "returned" /\ cpc = "idle") =>
              \A t \in 1..n : calls[t] = 1

\* C29 witness: the state file held a record without url and a record of a
\* collection item (index 2 of 3); the metadata lookup failed; one task
\* with index 2 and total 3 was created and the sequential loop ran it.
C29_Witness ==
    /\ kind = "resume"
    /\ loaded = <<RecNoUrl, RecA>>
    /\ maxWorkers = 1
    /\ n = 1
    /\ taskRec[1] = [url |-> 1, index |-> 2, total |-> 3, is_playlist |-> TRUE, info |-> "none"]
    /\ Called = <<<<"call", 1>>>>
    /\ opc = "returned"
    /\ InSeq(1, completed)

\* positions of StoreTasks whose task has a url and is not finished
KeptTasks == {i \in 1..Len(StoreTasks) :
                 Url(StoreTasks[i]) # 0 /\ status[StoreTasks[i]] # "finished"}

\* the k-th task of StoreTasks that has a url and is not finished
KeptTask(k) ==
    StoreTasks[CHOOSE i \in KeptTasks : Cardinality({j \in KeptTasks : j <= i}) = k]

\* C30: save_download_state(tasks) followed by load_download_state() no
\* more than 7 days later returns one record per task that has a url and
\* whose status is not "finished", in task order, each with the task's url,
\* is_playlist, index, total and percent as they were at the save.
C30_SaveLoadRoundTrip ==
    (spc = "loaded" /\ fileCond = "ok" /\ loadAge <= StaleDays * HoursPerDay) =>
        /\ Len(loaded) = Cardinality(KeptTasks)
        /\ \A k \in 1..Len(loaded) :
              /\ DOMAIN loaded[k] = {"url", "is_playlist", "index", "total", "progress"}
              /\ loaded[k].url = taskRec[KeptTask(k)].url
              /\ loaded[k].is_playlist = taskRec[KeptTask(k)].is_playlist
              /\ loaded[k].index = taskRec[KeptTask(k)].index
              /\ loaded[k].total = taskRec[KeptTask(k)].total
              /\ loaded[k].progress = percent[KeptTask(k)]

\* C30 witness: the first task was finished and the second at 50 percent
\* when the state was saved; the load, 7 days later to the hour, returned
\* the record of the second task alone.
C30_Witness ==
    /\ spc = "loaded"
    /\ fileCond = "ok"
    /\ loadAge = StaleDays * HoursPerDay
    /\ Url(1) # 0 /\ status[1] = "finished"
    /\ Len(loaded) = 1
    /\ loaded[1] = [url |-> 2, is_playlist |-> TRUE, index |-> 2, total |-> 2, progress |-> 50]

\* C31: load_download_state() returns the empty list, and does not raise,
\* when the state file is missing or cannot be parsed, or when its timestamp
\* is absent or cannot be parsed, whatever task records the file holds and
\* however recent it is.
C31_DamagedStateIgnored ==
    (spc \in {"loaded", "raised"} /\ fileCond # "ok") =>
        /\ spc = "loaded"
        /\ loaded = <<>>

\* C31 witness: a state file written within the week with two task records
\* in it, but without timestamp, was loaded.
C31_Witness ==
    /\ spc = "loaded"
    /\ fileCond = "no_timestamp"
    /\ Len(stateFile) = 2
    /\ loadAge < HoursPerDay

\* C32: in every reachable state a task's error_message is non-empty only
\* if its status is "error".
C32_MessageOnlyOnError ==
    \A t \in Created : errmsg[t] # NoMsg => status[t] = "error"

\* C34: in every reachable state, cancel_all_downloads interleaved with
\* finishing workers included, each task added to the downloader is in
\* exactly one of active_tasks, completed_tasks and failed_tasks, once.
C34_ExactlyOneList ==
    \A t \in Created : Count(t, AllLists) = 1

\* C35: in every reachable state every task in completed_tasks has status
\* "finished" and every task in failed_tasks has status "error".
C35_ListsMatchStatus ==
    /\ \A i \in 1..Len(completed) : status[completed[i]] = "finished"
    /\ \A i \in 1..Len(failed) : status[failed[i]] = "error"

\* C36: during a collection run, and before any cancel_all_downloads, a task
\* for which download_single_video has not been called yet has status
\* "waiting" and no filename, whatever events the engine emits for the tasks
\* being downloaded.
C36_UnstartedUntouched ==
    (kind = "playlist" /\ cpc = "idle") =>
        \A t \in Created :
            calls[t] = 0 => (status[t] = "waiting" /\ filename[t] = 0)

\* C33: no operation of the downloader changes a task's options after the
\* task is created. The options object the tasks of a run hold stays as it
\* was built (the caller's options, with the playlist output template for a
\* collection), also after the retry of download_single_video with format
\* "best"; and a collection run leaves the options object of its caller as
\* the caller built it.
C33_OptionsNeverMutated ==
    /\ callerOptions = [format_selector |-> "selector", output_template |-> "caller"]
    /\ (n > 0 /\ kind = "playlist") =>
           taskOptions = [format_selector |-> "selector", output_template |-> "playlist"]
    /\ (n > 0 /\ kind \in {"single", "resume"}) =>
           taskOptions = [format_selector |-> "selector", output_template |-> "caller"]

\* C33 witness: in a collection run of two tasks, the first engine call of
\* a task failed and the task was retried with format "best", while its
\* sibling is still waiting to be started.
C33_Witness ==
    /\ kind = "playlist"
    /\ n = 2
    /\ \E t \in Created :
          /\ ydlFormat[t] = "best"
          /\ taskOptions.format_selector = "selector"
          /\ \E u \in Created : calls[u] = 0

\* C37: with options every task can be started with, a cancel_all_downloads
\* called from another thread while a batch is running, or between two
\* batches of _download_parallel, never makes download() or
\* resume_downloads() raise: the run ends by returning a boolean.
C37_CancelNeverRaises ==
    (optsValid /\ cpc # "idle") =>
        /\ opc # "raised"
        /\ opc = "returned" => result \in BOOLEAN

\* C38: resume_downloads() never modifies or deletes the saved state: as
\* long as cancel_all_downloads is not called, the state file holds the
\* records resume_downloads loaded from it, also after the run has returned
\* with every resumed task finished, so that a second resume_downloads()
\* would load the same records again.
C38_ResumeKeepsState ==
    (kind = "resume" /\ cpc = "idle") => stateFile = loaded

\* C38 witness: a resume of two records returned True with both tasks
\* finished and in completed_tasks, and the state file still holds the two
\* records.
C38_Witness ==
    /\ kind = "resume"
    /\ cpc = "idle"
    /\ opc = "returned"
    /\ result = TRUE
    /\ n = 2
    /\ \A t \in Created : status[t] = "finished" /\ InSeq(t, completed)
    /\ Len(stateFile) = 2

\* C39: no progress callback is invoked while the notifying thread holds
\* _tasks_lock, so a callback that calls cancel_all_downloads (which takes
\* the lock) cannot deadlock: a thread that has not finished can take a
\* step, or waits for the lock while another thread holds it and can step.
C39_NotifyOutsideLock ==
    \A x \in LockThreads :
        /\ (gpc[x] \in NotifyAt /\ ~inCancel[x]) => lockHolder # x
        /\ gpc[x] # "done" =>
              \/ ENABLED ThreadStep(x)
              \/ \E y \in LockThreads \ {x} : lockHolder = y /\ ENABLED ThreadStep(y)

\* C39 witness: the callback of a progress event, run by thread 1 after the
\* lookup of progress_hook, is inside the lock region of cancel_all_downloads
\* while thread 2 waits for the lock in its finalizer.
C39_Witness ==
    /\ observer = "cancels"
    /\ gpc[1] = "notifyHook"
    /\ inCancel[1]
    /\ lockHolder = 1
    /\ gpc[2] = "finalize"

====
